---- MODULE Spec2Model ----
(***************************************************************************)
(* ParallelBatchPolopt (sandbox/adam/parallel/batch_polopt.py): the        *)
(* multiprocessing training loop.  train() allocates the shared objects and *)
(* starts n_parallel worker processes; each runs _train(rank).  Workers     *)
(* are named by the rank argument they are started with.                    *)
(***************************************************************************)
EXTENDS Integers, Sequences, FiniteSets, TLC

\* ---------------------------------------------------------------- bounds
MaxPar == 3        \* largest n_parallel explored
MaxItr == 2        \* largest n_itr explored
MaxStart == 1      \* largest start_itr explored
MaxSeed == 2       \* largest base seed explored (set_rank alone)
MaxRanks == 4      \* largest n_parallel explored (set_rank alone)
MaxSnapshotPar == 2  \* largest n_parallel explored with degenerate samples

\* The default of the seed argument of __init__, line 43.
DefaultSeed == 1

\* psutil.cpu_count(), line 304: the number of CPUs of the machine.
cpu_count == 2

VARIABLES
    n_parallel,    \* self.n_parallel
    n_itr,         \* self.n_itr
    start_itr,     \* the start_itr argument of __init__
    recurrent,     \* self.policy.recurrent
    par_ext,       \* whether init_par_objs of the derived class supplied
                   \* shareds.baselines, par_data.db and self.work
    cpu_assignments, \* self.cpu_assignments: <<>> (None) or <<table>>
    store_paths,   \* self.store_paths
    sample_space,  \* the batches the sampler can hand to a worker in this run
    params,        \* params[w]: <<>> or <<d>>, the dict params of _train in worker w
    created,       \* history: created[w] is <<>> or <<d>>, the dict as
                   \* get_itr_snapshot returned it
    persisted,     \* logger: the (itr, params) pairs save_itr_params has written
    seed,          \* self.seed
    par_objs,      \* par_objs[o]: how many times shared object o was allocated
    baseline_par_objs, \* the n_parallel arguments of the baseline.init_par_objs calls
    affinity,      \* affinity[w]: <<>> or <<c>>, the CPU worker w's process is pinned to
    baseline_rank, \* baseline_rank[w]: the rank given to baseline.set_rank (-1: none)
    rng_seed,      \* rng_seed[w]: <<>> or <<s>>, the seed given to ext.set_seed
    optimizer,     \* optimizer[w]: what worker w's optimizer was given by set_rank
                   \* and set_avg_fac, and in which iteration the factor was given
    phases,        \* history: phases[w] lists the calls of the loop body worker w
                   \* has completed in its current iteration
    waits,         \* history: waits[b][w] counts worker w's wait() calls on barrier b
    main,          \* position of the process that called train()
    started,       \* number of worker processes started so far
    pc,            \* pc[w]: position of worker w in _train
    itr,           \* itr[w]: the loop variable of _train
    current_itr,   \* current_itr[w]: self.current_itr in worker w's process
    par_rank,      \* par_rank[w]: par_data.rank in worker w's process (-1: None)
    batch,         \* batch[w]: <<>> or <<b>>, the samples of this iteration
    n_steps,       \* n_steps[w]: n_steps_collected, local of _train
    avg_fac,       \* avg_fac[w]: par_data.avg_fac, a fraction <<num, den>>
    loc,           \* loc[w]: <<>> or <<r>>, the locals of the latest log_diagnostics call
    tmp_n,         \* tmp_n[w]: value read by the += of set_avg_fac
    tmp_sh,        \* tmp_sh[w]: <<>> or <<s>>, values read by the += of log_diagnostics
    sh,            \* shareds: the shared scalars
    lock,          \* mgr_objs.lock: -1 when free, else the holder
    bar,           \* bar[b]: the workers blocked in barrier b's wait()
    tabular,       \* logger: rows recorded and not yet dumped
    dumped,        \* logger: the dump_tabular calls made
    saved,         \* logger: the save_itr_params calls made
    contributed    \* history: contributed[w] is the iteration of worker w's latest
                   \* write to the shared diagnostics scalars (-1: none yet)

vars == <<n_parallel, n_itr, start_itr, recurrent, par_ext, cpu_assignments, seed,
          store_paths, sample_space, params, created, persisted,
          par_objs, baseline_par_objs, affinity, baseline_rank, rng_seed, optimizer,
          phases, waits, main, started, pc,
          itr, current_itr, par_rank, batch, n_steps, avg_fac, loc, tmp_n,
          tmp_sh, sh, lock, bar, tabular, dumped, saved, contributed>>

cfgvars == <<n_parallel, n_itr, start_itr, recurrent, par_ext, cpu_assignments, seed,
            store_paths, sample_space>>

\* What the snapshot code of _train works on.
ckptvars == <<params, created, persisted>>

\* What init_par_objs leaves behind, and what set_rank leaves behind.
allocvars == <<par_objs, baseline_par_objs>>
rankvars == <<affinity, baseline_rank, rng_seed>>

Ranks == 0 .. (n_parallel - 1)

\* mgr_objs.barriers_dgnstc, line 112.
DgnstcBarriers == {"dgnstc0", "dgnstc1"}

\* mgr_objs.barriers_avgfac, used by set_avg_fac (lines 286-290) and left to
\* the derived class's init_par_objs to allocate.
AvgfacBarriers == {"avgfac0", "avgfac1"}

Barriers == DgnstcBarriers \cup AvgfacBarriers

\* ------------------------------------------------------------ sample data
\* One trajectory: ret = sum(path["rewards"]), len = len(path["rewards"]),
\* dret = path["returns"][0].
Path(r, l, d) == [ret |-> r, len |-> l, dret |-> d]

\* What obtain_samples / process_samples hand to one worker in one iteration:
\* the trajectories, the sum of the per-step entropies over all positions
\* (ent_all), over the valid positions (ent_valid), and the number of valid
\* positions (valids).
SampleBatches ==
    { [paths |-> <<Path(1, 1, 1), Path(2, 2, 1)>>, ent_all |-> 6, ent_valid |-> 4, valids |-> 2],
      [paths |-> <<Path(3, 1, 2)>>, ent_all |-> 2, ent_valid |-> 2, valids |-> 1] }

RECURSIVE SumSeq(_)
SumSeq(s) == IF s = <<>> THEN 0 ELSE Head(s) + SumSeq(Tail(s))

RECURSIVE MinSeq(_)
MinSeq(s) == IF Len(s) = 1 THEN Head(s)
             ELSE LET m == MinSeq(Tail(s)) IN IF Head(s) < m THEN Head(s) ELSE m

RECURSIVE MaxSeq(_)
MaxSeq(s) == IF Len(s) = 1 THEN Head(s)
             ELSE LET m == MaxSeq(Tail(s)) IN IF Head(s) > m THEN Head(s) ELSE m

Rets(b) == [i \in 1 .. Len(b.paths) |-> b.paths[i].ret]
Lens(b) == [i \in 1 .. Len(b.paths) |-> b.paths[i].len]
DRets(b) == [i \in 1 .. Len(b.paths) |-> b.paths[i].dret]

\* n_steps_collected as returned by obtain_samples
StepsCollected(b) == SumSeq(Lens(b))

\* ------------------------------------------------------------ shared block
\* The RawValues of lines 100-109, zero when allocated.
BaseShareds ==
    [sum_discounted_return |-> 0, sum_return |-> 0, num_traj |-> 0,
     max_return |-> 0, min_return |-> 0, num_steps |-> 0, num_valids |-> 0,
     sum_ent |-> 0]

\* shareds.n_steps_collected, used by set_avg_fac (lines 285-292) and left to
\* the derived class's init_par_objs to allocate.
DerivedShareds == [n_steps_collected |-> 0]

ZeroShareds == BaseShareds @@ DerivedShareds

\* Faulty variant: one diagnostics barrier is allocated, not two.
BaseParObjs_OneBarrier == DOMAIN BaseShareds \cup {"lock"} \cup {"dgnstc0"}

\* The shared objects _init_par_objs_batchpolopt allocates, lines 100-113, by
\* name: the eight RawValues, the lock, the two diagnostics barriers.
BaseParObjs == DOMAIN BaseShareds \cup {"lock"} \cup DgnstcBarriers

\* The shared objects the derived class's init_par_objs appends for
\* set_avg_fac.
DerivedParObjs == DOMAIN DerivedShareds \cup AvgfacBarriers

ParObjNames == DOMAIN ZeroShareds \cup {"lock"} \cup Barriers

\* One allocation of each object of S, counted in objs.
Allocate(objs, S) == [o \in DOMAIN objs |-> IF o \in S THEN objs[o] + 1 ELSE objs[o]]

\* The cpu_assignments explored: None, and a two-entry table whose second
\* entry is not a CPU of the machine.
CpuAssignments == {<<>>, <<<<1, 2>>>>}

\* The optimizer before set_rank and set_avg_fac reached it.
NewOptimizer == [rank |-> -1, avg_fac |-> <<>>, avg_fac_itr |-> -1]

\* The state of an algorithm object that __init__ has constructed, before
\* train() is called.
Constructed ==
    /\ params = [w \in Ranks |-> <<>>]
    /\ created = [w \in Ranks |-> <<>>]
    /\ persisted = <<>>
    /\ par_objs = [o \in ParObjNames |-> 0]
    /\ baseline_par_objs = <<>>
    /\ affinity = [w \in Ranks |-> <<>>]
    /\ baseline_rank = [w \in Ranks |-> -1]
    /\ rng_seed = [w \in Ranks |-> <<>>]
    /\ optimizer = [w \in Ranks |-> NewOptimizer]
    /\ phases = [w \in Ranks |-> <<>>]
    /\ waits = [b \in Barriers |-> [w \in Ranks |-> 0]]
    /\ main = "init_par_objs"
    /\ started = 0
    /\ pc = [w \in Ranks |-> "set_rank"]
    /\ itr = [w \in Ranks |-> start_itr]
    /\ current_itr = [w \in Ranks |-> start_itr]
    /\ par_rank = [w \in Ranks |-> -1]
    /\ batch = [w \in Ranks |-> <<>>]
    /\ n_steps = [w \in Ranks |-> 0]
    /\ avg_fac = [w \in Ranks |-> <<1, n_parallel>>]
    /\ loc = [w \in Ranks |-> <<>>]
    /\ tmp_n = [w \in Ranks |-> 0]
    /\ tmp_sh = [w \in Ranks |-> <<>>]
    /\ sh = ZeroShareds
    /\ lock = -1
    /\ bar = [b \in Barriers |-> {}]
    /\ tabular = <<>>
    /\ dumped = <<>>
    /\ saved = <<>>
    /\ contributed = [w \in Ranks |-> -1]

Init ==
    /\ n_parallel \in 1 .. MaxPar
    /\ n_itr \in 0 .. MaxItr
    /\ start_itr \in 0 .. MaxStart
    /\ recurrent \in BOOLEAN
    /\ par_ext \in BOOLEAN
    /\ cpu_assignments \in CpuAssignments
    /\ seed = DefaultSeed
    /\ store_paths = FALSE
    /\ sample_space = SampleBatches
    /\ Constructed

\* ------------------------------------------------------------------ train
\* Faulty variant: the baseline's parallel objects are never initialised.
BaselineInitParObjs_Omitted(n) == <<>>

\* Line 115: self.baseline.init_par_objs(n_parallel=self.n_parallel), as the
\* list of the calls made.
BaselineInitParObjs(n) == <<n>>

\* train(), lines 146-147: init_opt() and init_par_objs().  The RawValues
\* start at zero, the lock free, the barriers empty.
TrainInitParObjs ==
    /\ main = "init_par_objs"
    /\ main' = "start"
    /\ sh' = ZeroShareds
    /\ lock' = -1
    /\ bar' = [b \in Barriers |-> {}]
    /\ par_objs' = Allocate(Allocate(par_objs, BaseParObjs), DerivedParObjs)
    /\ baseline_par_objs' = baseline_par_objs \o BaselineInitParObjs(n_parallel)
    /\ UNCHANGED <<cfgvars, ckptvars, rankvars, optimizer, phases, waits,
                   started, pc, itr, current_itr, par_rank, batch, n_steps,
                   avg_fac, loc, tmp_n, tmp_sh, tabular, dumped, saved, contributed>>

\* train(), lines 150-151: p.start() for each process in rank order.
TrainStart ==
    /\ main = "start"
    /\ started' = started + 1
    /\ main' = IF started' = n_parallel THEN "join" ELSE "start"
    /\ UNCHANGED <<cfgvars, ckptvars, allocvars, rankvars, optimizer, phases, waits,
                   pc, itr, current_itr, par_rank, batch, n_steps, avg_fac,
                   loc, tmp_n, tmp_sh, sh, lock, bar, tabular, dumped, saved, contributed>>

Exited(w) == pc[w] \in {"done", "failed"}

\* train(), lines 152-153: p.join() for each process.
TrainJoin ==
    /\ main = "join"
    /\ \A w \in Ranks : Exited(w)
    /\ main' = "returned"
    /\ UNCHANGED <<cfgvars, ckptvars, allocvars, rankvars, optimizer, phases, waits,
                   started, pc, itr, current_itr, par_rank, batch, n_steps,
                   avg_fac, loc, tmp_n, tmp_sh, sh, lock, bar, tabular, dumped, saved, contributed>>

Running(w) == w < started

\* if par_data.rank == 0 ... else ...
IsLeader(w) == par_rank[w] = 0

Branch(w, leaderPc, otherPc) == IF IsLeader(w) THEN leaderPc ELSE otherPc

\* Faulty variant: the loop stops one iteration early.
LoopPc_StopsEarly(i) == IF i < n_itr - 1 THEN "obtain_samples" ELSE "done"

\* for itr in range(self.current_itr, self.n_itr): the next position when the
\* loop variable would become i.
LoopPc(i) == IF i < n_itr THEN "obtain_samples" ELSE "done"

\* ----------------------------------------------------------------- _train
\* Faulty variant: every process is started with rank 0.
RankArg_AllZero(w) == 0

\* Lines 148-149: args=(rank,) for rank in range(self.n_parallel) -- the rank
\* argument of the process named w.
RankArg(w) == w

\* Faulty variant: the table of assignments is ignored.
AssignedAffinity_IgnoresTable(rank) == rank % cpu_count

\* _set_affinity, lines 300-304: the one CPU selected for the rank.
AssignedAffinity(rank) ==
    IF cpu_assignments # <<>>
       THEN LET n_assignments == Len(cpu_assignments[1])
            IN  cpu_assignments[1][(rank % n_assignments) + 1]
       ELSE rank % cpu_count

\* Line 307: p.cpu_affinity(...) raises ValueError for a CPU the machine does
\* not have.
ValidCpu(c) == c \in 0 .. (cpu_count - 1)

\* Faulty variant: every worker is seeded with the base seed.
SeedOf_IgnoresRank(rank) == seed

\* Line 279: ext.set_seed(self.seed + rank)
SeedOf(rank) == seed + rank

\* Line 156 and set_rank, lines 273-279, then the loop header of line 157.
\* par_data.rank is assigned before _set_affinity can raise; the calls after
\* it are not made when it does, and the process ends with the error.
SetRank(w) ==
    /\ Running(w)
    /\ pc[w] = "set_rank"
    /\ par_rank' = [par_rank EXCEPT ![w] = RankArg(w)]
    /\ IF ValidCpu(AssignedAffinity(RankArg(w)))
          THEN /\ affinity' = [affinity EXCEPT ![w] = <<AssignedAffinity(RankArg(w))>>]
               /\ baseline_rank' = [baseline_rank EXCEPT ![w] = RankArg(w)]
               /\ optimizer' = [optimizer EXCEPT ![w].rank = RankArg(w)]
               /\ rng_seed' = [rng_seed EXCEPT ![w] = <<SeedOf(RankArg(w))>>]
               /\ itr' = [itr EXCEPT ![w] = current_itr[w]]
               /\ pc' = [pc EXCEPT ![w] = LoopPc(current_itr[w])]
          ELSE /\ pc' = [pc EXCEPT ![w] = "failed"]
               /\ UNCHANGED <<rankvars, optimizer, itr>>
    /\ UNCHANGED <<cfgvars, ckptvars, allocvars, phases, waits,
                   main, started, current_itr, batch, n_steps, avg_fac, loc,
                   tmp_n, tmp_sh, sh, lock, bar, tabular, dumped, saved, contributed>>

\* Line 159: paths, n_steps_collected = self.sampler.obtain_samples(itr)
ObtainSamples(w) ==
    /\ Running(w)
    /\ pc[w] = "obtain_samples"
    /\ \E b \in sample_space :
          /\ batch' = [batch EXCEPT ![w] = <<b>>]
          /\ n_steps' = [n_steps EXCEPT ![w] = StepsCollected(b)]
    /\ pc' = [pc EXCEPT ![w] = Branch(w, "set_avg_fac", "avgfac0_wait")]
    /\ phases' = [phases EXCEPT ![w] = <<"obtain_samples">>]
    /\ UNCHANGED <<cfgvars, ckptvars, allocvars, rankvars, optimizer, waits,
                   main, started, itr, current_itr, par_rank, avg_fac, loc,
                   tmp_n, tmp_sh, sh, lock, bar, tabular, dumped, saved, contributed>>

\* -------------------------------------------------------------- barriers
\* Faulty variant: wait() returns at once, whoever else has arrived.
BarrierFull_NeverBlocks(b) == TRUE

\* Faulty variant: the barrier is sized one party short.
BarrierFull_OneShort(b) == Cardinality(bar[b]) + 2 >= n_parallel

\* Faulty variant: the two diagnostics barriers let every worker through.
BarrierFull_DgnstcOpen(b) == b \in DgnstcBarriers \/ Cardinality(bar[b]) + 1 = n_parallel

\* mp.Barrier(self.n_parallel): the arriving worker is the last party.
BarrierFull(b) == Cardinality(bar[b]) + 1 = n_parallel

\* Faulty variant: set_avg_fac returns right after its second barrier, before
\* the factor is computed and handed to the optimizer.
AfterBarrier_NoFactor(b, v) ==
    CASE b = "avgfac0" -> Branch(v, "avgfac1_wait", "avgfac_add_read")
      [] b = "avgfac1" -> "process_samples"
      [] b = "dgnstc0" -> Branch(v, "dgnstc1_wait", "lock_acquire")
      [] b = "dgnstc1" -> "stmt241"

\* Faulty variant: after barriers_dgnstc[0] the leader enters the locked
\* block as well.
AfterBarrier_LeaderLocks(b, v) ==
    CASE b = "avgfac0" -> Branch(v, "avgfac1_wait", "avgfac_add_read")
      [] b = "avgfac1" -> "avg_fac"
      [] b = "dgnstc0" -> "lock_acquire"
      [] b = "dgnstc1" -> "stmt241"

\* Where worker v continues when the wait() on barrier b returns.
AfterBarrier(b, v) ==
    CASE b = "avgfac0" -> Branch(v, "avgfac1_wait", "avgfac_add_read")
      [] b = "avgfac1" -> "avg_fac"
      [] b = "dgnstc0" -> Branch(v, "dgnstc1_wait", "lock_acquire")
      [] b = "dgnstc1" -> "stmt241"

WaitPc(b) == b \o "_wait"
BlockedPc(b) == b \o "_blocked"

\* barrier.wait(): block until n_parallel workers are in the wait, then all
\* of them return.
BarrierWait(w, b) ==
    /\ Running(w)
    /\ pc[w] = WaitPc(b)
    /\ IF BarrierFull(b)
          THEN /\ bar' = [bar EXCEPT ![b] = {}]
               /\ pc' = [v \in Ranks |->
                           IF v = w \/ v \in bar[b] THEN AfterBarrier(b, v) ELSE pc[v]]
          ELSE /\ bar' = [bar EXCEPT ![b] = @ \cup {w}]
               /\ pc' = [pc EXCEPT ![w] = BlockedPc(b)]
    /\ waits' = [waits EXCEPT ![b][w] = @ + 1]
    /\ UNCHANGED <<cfgvars, ckptvars, allocvars, rankvars, optimizer, phases,
                   main, started, itr, current_itr, par_rank, batch, n_steps,
                   avg_fac, loc, tmp_n, tmp_sh, sh, lock, tabular, dumped, saved, contributed>>

\* ------------------------------------------------------------ set_avg_fac
\* Line 285 (leader): shareds.n_steps_collected.value = n_steps_collected
AvgFacLeaderWrite(w) ==
    /\ Running(w)
    /\ pc[w] = "set_avg_fac"
    /\ sh' = [sh EXCEPT !.n_steps_collected = n_steps[w]]
    /\ pc' = [pc EXCEPT ![w] = "avgfac0_wait"]
    /\ UNCHANGED <<cfgvars, ckptvars, allocvars, rankvars, optimizer, phases, waits,
                   main, started, itr, current_itr, par_rank, batch, n_steps,
                   avg_fac, loc, tmp_n, tmp_sh, lock, bar, tabular, dumped, saved, contributed>>

\* Line 289 (others): shareds.n_steps_collected.value += n_steps_collected.
\* A RawValue has no lock of its own and line 289 takes none: the += is a
\* read of the shared value, then a write of the sum.
AvgFacAddRead(w) ==
    /\ Running(w)
    /\ pc[w] = "avgfac_add_read"
    /\ tmp_n' = [tmp_n EXCEPT ![w] = sh.n_steps_collected]
    /\ pc' = [pc EXCEPT ![w] = "avgfac_add_write"]
    /\ UNCHANGED <<cfgvars, ckptvars, allocvars, rankvars, optimizer, phases, waits,
                   main, started, itr, current_itr, par_rank, batch, n_steps,
                   avg_fac, loc, tmp_sh, sh, lock, bar, tabular, dumped, saved, contributed>>

AvgFacAddWrite(w) ==
    /\ Running(w)
    /\ pc[w] = "avgfac_add_write"
    /\ sh' = [sh EXCEPT !.n_steps_collected = tmp_n[w] + n_steps[w]]
    /\ tmp_n' = [tmp_n EXCEPT ![w] = 0]
    /\ pc' = [pc EXCEPT ![w] = "avgfac1_wait"]
    /\ UNCHANGED <<cfgvars, ckptvars, allocvars, rankvars, optimizer, phases, waits,
                   main, started, itr, current_itr, par_rank, batch, n_steps,
                   avg_fac, loc, tmp_sh, lock, bar, tabular, dumped, saved, contributed>>

\* Faulty variant: the factor is left at its initial value 1 / n_parallel.
AvgFac_NotRecomputed(w) == <<1, n_parallel>>

\* Line 292: n_steps_collected / shareds.n_steps_collected.value
AvgFac(w) == <<n_steps[w], sh.n_steps_collected>>

\* Lines 292-294: avg_fac = n_steps_collected / shareds.n_steps_collected.value
\* (a ZeroDivisionError when the shared total is 0), kept as the fraction
\* <<numerator, denominator>>, stored in par_data and given to the optimizer
\* by self.optimizer.set_avg_fac(avg_fac).
AvgFacCompute(w) ==
    /\ Running(w)
    /\ pc[w] = "avg_fac"
    /\ IF sh.n_steps_collected = 0
          THEN /\ pc' = [pc EXCEPT ![w] = "failed"]
               /\ UNCHANGED <<avg_fac, optimizer, phases>>
          ELSE /\ avg_fac' = [avg_fac EXCEPT ![w] = AvgFac(w)]
               /\ optimizer' = [optimizer EXCEPT ![w].avg_fac = avg_fac'[w],
                                                 ![w].avg_fac_itr = itr[w]]
               /\ phases' = [phases EXCEPT ![w] = Append(@, "set_avg_fac")]
               /\ pc' = [pc EXCEPT ![w] = "process_samples"]
    /\ UNCHANGED <<cfgvars, ckptvars, allocvars, rankvars, waits,
                   main, started, itr, current_itr, par_rank, batch, n_steps,
                   loc, tmp_n, tmp_sh, sh, lock, bar, tabular, dumped, saved, contributed>>

\* Line 161: samples_data, dgnstc_data = self.sampler.process_samples(itr, paths)
ProcessSamples(w) ==
    /\ Running(w)
    /\ pc[w] = "process_samples"
    /\ pc' = [pc EXCEPT ![w] = "log_diagnostics"]
    /\ phases' = [phases EXCEPT ![w] = Append(@, "process_samples")]
    /\ UNCHANGED <<cfgvars, ckptvars, allocvars, rankvars, optimizer, waits,
                   main, started, itr, current_itr, par_rank, batch, n_steps,
                   avg_fac, loc, tmp_n, tmp_sh, sh, lock, bar, tabular, dumped, saved, contributed>>

\* -------------------------------------------------------- log_diagnostics
\* Lines 194-208: the local reductions over the worker's own batch b.
LocalReductions(b, i) ==
    [itr |-> i,
     undiscounted_returns |-> Rets(b),
     sum_discounted_returns |-> SumSeq(DRets(b)),
     num_traj |-> Len(Rets(b)),
     num_steps |-> SumSeq(Lens(b)),
     sum_returns |-> SumSeq(Rets(b)),
     min_return |-> MinSeq(Rets(b)),
     max_return |-> MaxSeq(Rets(b)),
     sum_ent |-> IF ~recurrent THEN b.ent_all ELSE b.ent_valid,
     num_valids |-> IF ~recurrent THEN 0 ELSE b.valids]

\* np.min / np.max of an empty list raise ValueError (lines 200-201).
LogLocal(w) ==
    /\ Running(w)
    /\ pc[w] = "log_diagnostics"
    /\ IF Len(batch[w][1].paths) = 0
          THEN /\ pc' = [pc EXCEPT ![w] = "failed"]
               /\ UNCHANGED loc
          ELSE /\ loc' = [loc EXCEPT ![w] = <<LocalReductions(batch[w][1], itr[w])>>]
               /\ pc' = [pc EXCEPT ![w] = Branch(w, "dgnstc_write", "dgnstc0_wait")]
    /\ UNCHANGED <<cfgvars, ckptvars, allocvars, rankvars, optimizer, phases, waits,
                   main, started, itr, current_itr, par_rank, batch, n_steps,
                   avg_fac, tmp_n, tmp_sh, sh, lock, bar, tabular, dumped, saved, contributed>>

\* Faulty variant: the leader adds to the shared sums and counts instead of assigning.
LeaderOverwrite_Accumulate(s, l) ==
    [s EXCEPT !.sum_discounted_return = @ + l.sum_discounted_returns,
              !.sum_return = @ + l.sum_returns,
              !.num_traj = @ + l.num_traj,
              !.min_return = l.min_return,
              !.max_return = l.max_return,
              !.sum_ent = @ + l.sum_ent,
              !.num_steps = @ + l.num_steps,
              !.num_valids = @ + l.num_valids]

\* Lines 211-218 (leader): every diagnostics scalar is assigned the leader's
\* local value.
LeaderOverwrite(s, l) ==
    [s EXCEPT !.sum_discounted_return = l.sum_discounted_returns,
              !.sum_return = l.sum_returns,
              !.num_traj = l.num_traj,
              !.min_return = l.min_return,
              !.max_return = l.max_return,
              !.sum_ent = l.sum_ent,
              !.num_steps = l.num_steps,
              !.num_valids = l.num_valids]

DgnstcLeaderWrite(w) ==
    /\ Running(w)
    /\ pc[w] = "dgnstc_write"
    /\ sh' = LeaderOverwrite(sh, loc[w][1])
    /\ pc' = [pc EXCEPT ![w] = "dgnstc0_wait"]
    /\ contributed' = [contributed EXCEPT ![w] = itr[w]]
    /\ UNCHANGED <<cfgvars, ckptvars, allocvars, rankvars, optimizer, phases, waits,
                   main, started, itr, current_itr, par_rank, batch, n_steps,
                   avg_fac, loc, tmp_n, tmp_sh, lock, bar, tabular, dumped, saved>>

\* Faulty variant: the lock does not exclude.
LockFree_NoExclusion == TRUE

\* Line 222: with mgr_objs.lock -- acquire blocks until the lock is free.
LockFree == lock = -1

LockAcquire(w) ==
    /\ Running(w)
    /\ pc[w] = "lock_acquire"
    /\ LockFree
    /\ lock' = w
    /\ pc' = [pc EXCEPT ![w] = "dgnstc_add_read"]
    /\ UNCHANGED <<cfgvars, ckptvars, allocvars, rankvars, optimizer, phases, waits,
                   main, started, itr, current_itr, par_rank, batch, n_steps,
                   avg_fac, loc, tmp_n, tmp_sh, sh, bar, tabular, dumped, saved, contributed>>

\* Lines 223-232: the reads of the += and of the two comparisons.
DgnstcAddRead(w) ==
    /\ Running(w)
    /\ pc[w] = "dgnstc_add_read"
    /\ tmp_sh' = [tmp_sh EXCEPT ![w] = <<sh>>]
    /\ pc' = [pc EXCEPT ![w] = "dgnstc_add_write"]
    /\ UNCHANGED <<cfgvars, ckptvars, allocvars, rankvars, optimizer, phases, waits,
                   main, started, itr, current_itr, par_rank, batch, n_steps,
                   avg_fac, loc, tmp_n, sh, lock, bar, tabular, dumped, saved, contributed>>

\* Faulty variant: the maximum is replaced without the comparison.
MaxUpdate_NoCompare(cur, mine) == mine

\* Lines 228-231: compare-and-replace of max_return and min_return.
MaxUpdate(cur, mine) == IF mine > cur THEN mine ELSE cur
MinUpdate(cur, mine) == IF mine < cur THEN mine ELSE cur

\* Lines 223-232: the values written, from the values r read and the locals l.
NonLeaderAdd(s, r, l) ==
    [s EXCEPT !.sum_discounted_return = r.sum_discounted_return + l.sum_discounted_returns,
              !.sum_return = r.sum_return + l.sum_returns,
              !.num_traj = r.num_traj + l.num_traj,
              !.num_steps = r.num_steps + l.num_steps,
              !.num_valids = r.num_valids + l.num_valids,
              !.max_return = MaxUpdate(r.max_return, l.max_return),
              !.min_return = MinUpdate(r.min_return, l.min_return),
              !.sum_ent = r.sum_ent + l.sum_ent]

DgnstcAddWrite(w) ==
    /\ Running(w)
    /\ pc[w] = "dgnstc_add_write"
    /\ sh' = NonLeaderAdd(sh, tmp_sh[w][1], loc[w][1])
    /\ tmp_sh' = [tmp_sh EXCEPT ![w] = <<>>]
    /\ pc' = [pc EXCEPT ![w] = "lock_release"]
    /\ contributed' = [contributed EXCEPT ![w] = itr[w]]
    /\ UNCHANGED <<cfgvars, ckptvars, allocvars, rankvars, optimizer, phases, waits,
                   main, started, itr, current_itr, par_rank, batch, n_steps,
                   avg_fac, loc, tmp_n, lock, bar, tabular, dumped, saved>>

\* End of the with block of line 222: the lock is released.
LockRelease(w) ==
    /\ Running(w)
    /\ pc[w] = "lock_release"
    /\ lock' = -1
    /\ pc' = [pc EXCEPT ![w] = "dgnstc1_wait"]
    /\ UNCHANGED <<cfgvars, ckptvars, allocvars, rankvars, optimizer, phases, waits,
                   main, started, itr, current_itr, par_rank, batch, n_steps,
                   avg_fac, loc, tmp_n, tmp_sh, sh, bar, tabular, dumped, saved, contributed>>

\* Faulty variant: the log block is not guarded by the rank.
RecordsLog_AnyRank(w) == TRUE

\* The guard of line 243: if par_data.rank == 0
RecordsLog(w) == par_rank[w] = 0

\* Line 241, run by every worker after barriers_dgnstc[1]:
\* shareds.baselines[par_data.db[0]:par_data.db[1]] = dgnstc_data[:self.work]
\* raises AttributeError unless the derived class supplied the attributes.
Stmt241(w) ==
    /\ Running(w)
    /\ pc[w] = "stmt241"
    /\ pc' = [pc EXCEPT ![w] = IF ~par_ext THEN "failed"
                                  ELSE IF RecordsLog(w) THEN "derive"
                                  ELSE "optimize_policy"]
    /\ phases' = [phases EXCEPT ![w] = IF par_ext /\ ~RecordsLog(w)
                                           THEN Append(@, "log_diagnostics") ELSE @]
    /\ UNCHANGED <<cfgvars, ckptvars, allocvars, rankvars, optimizer, waits,
                   main, started, itr, current_itr, par_rank, batch, n_steps,
                   avg_fac, loc, tmp_n, tmp_sh, sh, lock, bar, tabular, dumped, saved, contributed>>

\* Faulty variant: the entropy is divided by num_steps in both modes.
EntDenominator_AlwaysSteps(s) == s.num_steps

\* Line 248 / 250: the entropy denominator.
EntDenominator(s) == IF recurrent THEN s.num_valids ELSE s.num_steps

\* Faulty variant: the mean return is taken over the steps, not the trajectories.
TabularRow_MeanOverSteps(w, i, s) ==
    [by |-> par_rank[w],
     Iteration |-> i,
     AverageDiscountedReturn |-> <<s.sum_discounted_return, s.num_traj>>,
     AverageReturn |-> <<s.sum_return, s.num_steps>>,
     NumTrajs |-> s.num_traj,
     Entropy |-> <<s.sum_ent, IF recurrent THEN s.num_valids ELSE s.num_steps>>,
     MaxReturn |-> s.max_return,
     MinReturn |-> s.min_return]

\* Lines 244-261 (leader): the derived statistics, as fractions, and the
\* record_tabular calls.  by: the rank of the recording process.
TabularRow(w, i, s) ==
    [by |-> par_rank[w],
     Iteration |-> i,
     AverageDiscountedReturn |-> <<s.sum_discounted_return, s.num_traj>>,
     AverageReturn |-> <<s.sum_return, s.num_traj>>,
     NumTrajs |-> s.num_traj,
     Entropy |-> <<s.sum_ent, EntDenominator(s)>>,
     MaxReturn |-> s.max_return,
     MinReturn |-> s.min_return]

\* Faulty variant: a zero divisor is replaced by a default and nothing is raised.
DivisionFails_Guarded(s) == FALSE

\* Lines 245-250: a division by zero raises ZeroDivisionError.
DivisionFails(s) == s.num_traj = 0 \/ EntDenominator(s) = 0

\* Lines 243-261; nothing catches the error of a division.
Derive(w) ==
    /\ Running(w)
    /\ pc[w] = "derive"
    /\ IF DivisionFails(sh)
          THEN /\ pc' = [pc EXCEPT ![w] = "failed"]
               /\ UNCHANGED tabular
          ELSE /\ tabular' = Append(tabular, TabularRow(w, itr[w], sh))
               /\ pc' = [pc EXCEPT ![w] = "optimize_policy"]
    /\ phases' = [phases EXCEPT ![w] = IF pc'[w] = "failed" THEN @
                                           ELSE Append(@, "log_diagnostics")]
    /\ UNCHANGED <<cfgvars, ckptvars, allocvars, rankvars, optimizer, waits,
                   main, started, itr, current_itr, par_rank, batch, n_steps,
                   avg_fac, loc, tmp_n, tmp_sh, sh, lock, bar, dumped, saved, contributed>>

\* ------------------------------------------------- the rest of the loop body
\* Faulty variant: the snapshot and checkpoint blocks are not guarded by the rank.
RankZero_AnyRank(w) == TRUE

\* The guards of lines 164, 169, 172, 179: if rank == 0
RankZero(w) == RankArg(w) = 0

\* Line 163: self.optimize_policy(itr, samples_data)
OptimizePolicy(w) ==
    /\ Running(w)
    /\ pc[w] = "optimize_policy"
    /\ pc' = [pc EXCEPT ![w] = IF RankZero(w) THEN "get_itr_snapshot" ELSE "baseline_fit"]
    /\ phases' = [phases EXCEPT ![w] = Append(@, "optimize_policy")]
    /\ UNCHANGED <<cfgvars, ckptvars, allocvars, rankvars, optimizer, waits,
                   main, started, itr, current_itr, par_rank, batch, n_steps,
                   avg_fac, loc, tmp_n, tmp_sh, sh, lock, bar, tabular, dumped, saved, contributed>>

\* The dict get_itr_snapshot of the derived class returns for iteration i: the
\* entries that capture the parameters of that iteration.
ItrSnapshot(i) == [itr |-> i]

\* Lines 164-167 (rank 0): params = self.get_itr_snapshot(itr, samples_data)
GetItrSnapshot(w) ==
    /\ Running(w)
    /\ pc[w] = "get_itr_snapshot"
    /\ params' = [params EXCEPT ![w] = <<ItrSnapshot(itr[w])>>]
    /\ created' = [created EXCEPT ![w] = <<ItrSnapshot(itr[w])>>]
    /\ pc' = [pc EXCEPT ![w] = "baseline_fit"]
    /\ UNCHANGED <<persisted>>
    /\ UNCHANGED <<cfgvars, allocvars, rankvars, optimizer, phases, waits,
                   main, started, itr, current_itr, par_rank, batch, n_steps,
                   avg_fac, loc, tmp_n, tmp_sh, sh, lock, bar, tabular, dumped, saved, contributed>>

\* Line 168: self.baseline.fit(paths)
BaselineFit(w) ==
    /\ Running(w)
    /\ pc[w] = "baseline_fit"
    /\ pc' = [pc EXCEPT ![w] = "set_current_itr"]
    /\ phases' = [phases EXCEPT ![w] = Append(@, "baseline_fit")]
    /\ UNCHANGED <<cfgvars, ckptvars, allocvars, rankvars, optimizer, waits,
                   main, started, itr, current_itr, par_rank, batch, n_steps,
                   avg_fac, loc, tmp_n, tmp_sh, sh, lock, bar, tabular, dumped, saved, contributed>>

\* The guard of line 172, under which line 177 saves the snapshot.
SavesSnapshot(w) == RankZero(w)

\* Faulty variant: current_itr is left at the iteration that has just run.
NextCurrentItr_NotAdvanced(i) == i

\* Line 171: the value given to self.current_itr after iteration i.
NextCurrentItr(i) == i + 1

\* Line 171: self.current_itr = itr + 1; a worker that does not checkpoint
\* goes on to the next value of the loop variable.
SetCurrentItr(w) ==
    /\ Running(w)
    /\ pc[w] = "set_current_itr"
    /\ current_itr' = [current_itr EXCEPT ![w] = NextCurrentItr(itr[w])]
    /\ IF SavesSnapshot(w)
          THEN /\ pc' = [pc EXCEPT ![w] = "checkpoint"]
               /\ UNCHANGED itr
          ELSE /\ pc' = [pc EXCEPT ![w] = LoopPc(itr[w] + 1)]
               /\ itr' = [itr EXCEPT ![w] = itr[w] + 1]
    /\ UNCHANGED <<cfgvars, ckptvars, allocvars, rankvars, optimizer, phases, waits,
                   main, started, par_rank, batch, n_steps,
                   avg_fac, loc, tmp_n, tmp_sh, sh, lock, bar, tabular, dumped, saved, contributed>>

\* The algorithm object as save_itr_params pickles it: the fields of self
\* that training resumes from.
AlgoState(w) == [current_itr |-> current_itr[w]]

\* Faulty variant: the dict is replaced by one that holds the algorithm only.
WithAlgo_Replaces(d, w) == [algo |-> AlgoState(w)]

\* Line 173: params["algo"] = self
WithAlgo(d, w) == [algo |-> AlgoState(w)] @@ d

\* Faulty variant: the paths are attached whatever store_paths says.
StoresPaths_Always == TRUE

\* Line 175: if self.store_paths
StoresPaths == store_paths

\* Faulty variant: the paths attached are those of the last worker.
SnapshotPaths_LastWorker(w) == batch[n_parallel - 1][1].paths

\* Line 176: samples_data["paths"], the paths this process sampled itself.
SnapshotPaths(w) == batch[w][1].paths

\* Lines 175-176: if self.store_paths: params["paths"] = samples_data["paths"]
WithPaths(d, w) == IF StoresPaths THEN [paths |-> SnapshotPaths(w)] @@ d ELSE d

\* Lines 173-180: the two assignments into params (an UnboundLocalError in
\* a process that never assigned params), then
\* logger.save_itr_params(itr, params), then logger.dump_tabular, which
\* writes the recorded rows out and clears them.
Checkpoint(w) ==
    /\ Running(w)
    /\ pc[w] = "checkpoint"
    /\ IF params[w] = <<>>
          THEN /\ pc' = [pc EXCEPT ![w] = "failed"]
               /\ UNCHANGED <<params, persisted, saved, dumped, tabular, itr>>
          ELSE /\ params' = [params EXCEPT ![w] = <<WithPaths(WithAlgo(params[w][1], w), w)>>]
               /\ persisted' = Append(persisted, [itr |-> itr[w],
                                                  params |-> params'[w][1],
                                                  created |-> created[w][1]])
               /\ saved' = Append(saved, [itr |-> itr[w], by |-> w])
               /\ dumped' = Append(dumped, [itr |-> itr[w], by |-> w, rows |-> Len(tabular)])
               /\ tabular' = <<>>
               /\ pc' = [pc EXCEPT ![w] = LoopPc(itr[w] + 1)]
               /\ itr' = [itr EXCEPT ![w] = itr[w] + 1]
    /\ UNCHANGED created
    /\ UNCHANGED <<cfgvars, allocvars, rankvars, optimizer, phases, waits,
                   main, started, current_itr, par_rank, batch, n_steps,
                   avg_fac, loc, tmp_n, tmp_sh, sh, lock, bar, contributed>>

\* ------------------------------------------------------------ specification
Next ==
    \/ TrainInitParObjs
    \/ TrainStart
    \/ TrainJoin
    \/ \E w \in Ranks : SetRank(w)
    \/ \E w \in Ranks : ObtainSamples(w)
    \/ \E w \in Ranks : \E b \in Barriers : BarrierWait(w, b)
    \/ \E w \in Ranks : AvgFacLeaderWrite(w)
    \/ \E w \in Ranks : AvgFacAddRead(w)
    \/ \E w \in Ranks : AvgFacAddWrite(w)
    \/ \E w \in Ranks : AvgFacCompute(w)
    \/ \E w \in Ranks : ProcessSamples(w)
    \/ \E w \in Ranks : LogLocal(w)
    \/ \E w \in Ranks : DgnstcLeaderWrite(w)
    \/ \E w \in Ranks : LockAcquire(w)
    \/ \E w \in Ranks : DgnstcAddRead(w)
    \/ \E w \in Ranks : DgnstcAddWrite(w)
    \/ \E w \in Ranks : LockRelease(w)
    \/ \E w \in Ranks : Stmt241(w)
    \/ \E w \in Ranks : Derive(w)
    \/ \E w \in Ranks : OptimizePolicy(w)
    \/ \E w \in Ranks : GetItrSnapshot(w)
    \/ \E w \in Ranks : BaselineFit(w)
    \/ \E w \in Ranks : SetCurrentItr(w)
    \/ \E w \in Ranks : Checkpoint(w)

Spec == Init /\ [][Next]_vars

\* The steps of the process that called train(), and those of the worker
\* process of rank w.
Main == TrainInitParObjs \/ TrainStart \/ TrainJoin

Worker(w) ==
    \/ SetRank(w) \/ ObtainSamples(w)
    \/ \E b \in Barriers : BarrierWait(w, b)
    \/ AvgFacLeaderWrite(w) \/ AvgFacAddRead(w) \/ AvgFacAddWrite(w) \/ AvgFacCompute(w)
    \/ ProcessSamples(w) \/ LogLocal(w) \/ DgnstcLeaderWrite(w)
    \/ LockAcquire(w) \/ DgnstcAddRead(w) \/ DgnstcAddWrite(w) \/ LockRelease(w)
    \/ Stmt241(w) \/ Derive(w) \/ OptimizePolicy(w) \/ GetItrSnapshot(w)
    \/ BaselineFit(w) \/ SetCurrentItr(w) \/ Checkpoint(w)

\* The operating system runs every process that can take a step, and every
\* collaborator call returns: a process that stays able to step does step.
Fairness ==
    /\ WF_vars(Main)
    /\ \A w \in 0 .. (MaxPar - 1) : WF_vars(w \in Ranks /\ Worker(w))

FairSpec == Spec /\ Fairness

\* ------------------------------------------------------ set_rank on its own
\* The cpu_assignments explored for set_rank: None and tables of one, two and
\* three entries, one of them with an entry that is not a CPU of the machine.
AffinityTables == {<<>>, <<<<0>>>>, <<<<1, 0>>>>, <<<<1, 2>>>>, <<<<1, 1, 0>>>>}

\* train() with n_itr = 0: every process runs set_rank and leaves the loop at
\* once, for more ranks, more assignment tables and more seeds.
SetRankInit ==
    /\ n_parallel \in 1 .. MaxRanks
    /\ n_itr = 0
    /\ start_itr = 0
    /\ recurrent = FALSE
    /\ par_ext = TRUE
    /\ cpu_assignments \in AffinityTables
    /\ seed \in 1 .. MaxSeed
    /\ store_paths = FALSE
    /\ sample_space = SampleBatches
    /\ Constructed

SetRankNext ==
    \/ TrainInitParObjs
    \/ TrainStart
    \/ TrainJoin
    \/ \E w \in Ranks : SetRank(w)

SetRankSpec == SetRankInit /\ [][SetRankNext]_vars

\* ------------------------------------------- snapshots and degenerate samples
\* Batches a sampler can also return: no trajectory at all, and trajectories
\* whose valids mask is zero everywhere.
DegenerateBatches ==
    { [paths |-> <<>>, ent_all |-> 0, ent_valid |-> 0, valids |-> 0],
      [paths |-> <<Path(2, 1, 2)>>, ent_all |-> 2, ent_valid |-> 0, valids |-> 0] }

\* train() for one or two processes, with store_paths on or off and a sampler
\* that may return the degenerate batches as well.
SnapshotInit ==
    /\ n_parallel \in 1 .. MaxSnapshotPar
    /\ n_itr \in 0 .. MaxItr
    /\ start_itr \in 0 .. MaxStart
    /\ recurrent \in BOOLEAN
    /\ par_ext = TRUE
    /\ cpu_assignments = <<>>
    /\ seed = DefaultSeed
    /\ store_paths \in BOOLEAN
    /\ sample_space = SampleBatches \cup DegenerateBatches
    /\ Constructed

SnapshotSpec == SnapshotInit /\ [][Next]_vars

\* ================================================================ claims
\* Shared helpers of the claims' formulas.

\* The sum of F[0] .. F[k] for a function F over the ranks.
RECURSIVE SumTo(_, _)
SumTo(F, k) == IF k < 0 THEN 0 ELSE F[k] + SumTo(F, k - 1)

SumRanks(F) == SumTo(F, n_parallel - 1)

\* Fractions <<numerator, denominator>> with positive denominators.
FracEq(a, b) == a[1] * b[2] = b[1] * a[2]
FracAdd(a, b) == <<a[1] * b[2] + b[1] * a[2], a[2] * b[2]>>

RECURSIVE FracSumTo(_, _)
FracSumTo(F, k) == IF k < 0 THEN <<0, 1>> ELSE FracAdd(F[k], FracSumTo(F, k - 1))

SetMax(S) == CHOOSE x \in S : \A y \in S : y <= x
SetMin(S) == CHOOSE x \in S : \A y \in S : x <= y

Max0(x) == IF x < 0 THEN 0 ELSE x

\* The positions of the leader between the opening of barriers_dgnstc[1] in
\* an iteration and the end of that iteration: every worker has passed
\* barrier B of the round of iteration itr[0].
AfterBPcs == {"stmt241", "derive", "optimize_policy", "get_itr_snapshot",
              "baseline_fit", "set_current_itr", "checkpoint"}

RoundDone == 0 < started /\ pc[0] \in AfterBPcs

\* Every worker's locals of log_diagnostics are those of the leader's iteration.
LocalsOfRound == \A w \in Ranks : loc[w] # <<>> /\ loc[w][1].itr = itr[0]

\* The workers' local values of one field, as a function over the ranks.
LocalField(f) == [w \in Ranks |-> loc[w][1][f]]

\* The per-trajectory undiscounted returns of all workers' batches.
AllReturns ==
    UNION { { loc[w][1].undiscounted_returns[k] :
                k \in 1 .. Len(loc[w][1].undiscounted_returns) } : w \in Ranks }

\* C1: once every worker has passed barrier B of a diagnostics round, the
\* shared sum_return, num_traj and num_steps are the sums of the n_parallel
\* workers' local values of that iteration, each counted exactly once.
C1_ExactSums ==
    RoundDone =>
        /\ LocalsOfRound
        /\ sh.sum_return = SumRanks(LocalField("sum_returns"))
        /\ sh.num_traj = SumRanks(LocalField("num_traj"))
        /\ sh.num_steps = SumRanks(LocalField("num_steps"))

\* Three workers, second iteration, the leader about to read the aggregates
\* after both non-leaders added different local values.
C1_Witness ==
    /\ n_parallel = 3
    /\ 0 < started /\ pc[0] = "derive" /\ itr[0] = 1
    /\ loc[1] # <<>> /\ loc[2] # <<>>
    /\ loc[1][1].num_traj # loc[2][1].num_traj
    /\ sh.num_traj = loc[0][1].num_traj + loc[1][1].num_traj + loc[2][1].num_traj

\* C2: once every worker has passed barrier B of a diagnostics round, the
\* shared max_return and min_return are the maximum and minimum over all
\* workers' per-trajectory undiscounted returns of that iteration.
C2_TrueMaxMin ==
    RoundDone =>
        /\ sh.max_return = SetMax(AllReturns)
        /\ sh.min_return = SetMin(AllReturns)

\* Three workers; the two non-leaders hold different batches and the shared
\* minimum was replaced by a non-leader's (it is below the leader's own).
C2_Witness ==
    /\ n_parallel = 3
    /\ 0 < started /\ pc[0] = "derive"
    /\ LocalsOfRound
    /\ sh.min_return < loc[0][1].min_return
    /\ loc[1][1].max_return # loc[2][1].max_return

\* Every worker has set its averaging factor of the current iteration and
\* none has gone past barrier A of the diagnostics round.
AvgRoundDone ==
    \A w \in Ranks :
        /\ Running(w)
        /\ pc[w] \in {"process_samples", "log_diagnostics", "dgnstc_write",
                      "dgnstc0_wait", "dgnstc0_blocked"}

\* C3: after a set_avg_fac round in which every worker collected steps > 0,
\* worker i's averaging factor is steps_i / sum_j steps_j and the factors of
\* all workers sum to 1, for every n_parallel and every interleaving.
C3_AvgFacShares ==
    (AvgRoundDone /\ \A w \in Ranks : n_steps[w] > 0) =>
        /\ \A w \in Ranks : FracEq(avg_fac[w], <<n_steps[w], SumRanks(n_steps)>>)
        /\ FracEq(FracSumTo(avg_fac, n_parallel - 1), <<1, 1>>)

\* Worker w is past barrier A of a diagnostics round and has not yet left
\* its locked block.
NonLeaderAdding(w) ==
    pc[w] \in {"lock_acquire", "dgnstc_add_read", "dgnstc_add_write", "lock_release"}

\* The leader is between barrier B and the end of its reads of the aggregates.
LeaderReading == 0 < started /\ pc[0] \in {"stmt241", "derive"}

\* C4: in every diagnostics round the leader's overwrite of the shared
\* scalars precedes every non-leader's read or addition (barrier A), and every
\* non-leader's addition precedes the leader's read of the aggregates
\* (barrier B).
C4_BarrierOrder ==
    /\ \A w \in Ranks : NonLeaderAdding(w) => contributed[0] = itr[w]
    /\ LeaderReading => \A w \in Ranks : contributed[w] = itr[0]

\* A non-leader of three is between the read and the write of its addition in
\* the second iteration while the other non-leader has not yet added.
C4_Witness ==
    /\ n_parallel = 3
    /\ pc[1] = "dgnstc_add_write" /\ itr[1] = 1
    /\ pc[2] = "lock_acquire"
    /\ contributed[0] = 1

\* The positions inside the += of set_avg_fac and inside those of
\* log_diagnostics.
AvgfacAddPcs == {"avgfac_add_read", "avgfac_add_write"}
DgnstcAddPcs == {"dgnstc_add_read", "dgnstc_add_write"}

\* C5: every addition of a non-leader to a shared scalar, in log_diagnostics
\* and in set_avg_fac, is made while that worker holds the lock, so no two
\* workers are inside a read-modify-write of the same scalar at once.
C5_AddsUnderLock ==
    /\ \A w \in Ranks : pc[w] \in AvgfacAddPcs \cup DgnstcAddPcs => lock = w
    /\ \A v, w \in Ranks :
          v # w => /\ ~(pc[v] \in AvgfacAddPcs /\ pc[w] \in AvgfacAddPcs)
                   /\ ~(pc[v] \in DgnstcAddPcs /\ pc[w] \in DgnstcAddPcs)

RoundMax == SetMax(AllReturns)
RoundMin == SetMin(AllReturns)

\* C6: the shared diagnostics scalars do not accumulate across iterations:
\* when the leader overwrites them no addition of the previous round is still
\* to land and none of the new round has landed, and what the leader reads
\* after barrier B of a later iteration holds that iteration's values only.
C6_NoCarryOver ==
    /\ (0 < started /\ pc[0] = "dgnstc_write") =>
          \A w \in Ranks \ {0} : ~NonLeaderAdding(w) /\ contributed[w] < itr[0]
    /\ (LeaderReading /\ itr[0] > start_itr) =>
          /\ LocalsOfRound
          /\ sh.sum_discounted_return = SumRanks(LocalField("sum_discounted_returns"))
          /\ sh.sum_return = SumRanks(LocalField("sum_returns"))
          /\ sh.num_traj = SumRanks(LocalField("num_traj"))
          /\ sh.num_steps = SumRanks(LocalField("num_steps"))
          /\ sh.num_valids = SumRanks(LocalField("num_valids"))
          /\ sh.sum_ent = SumRanks(LocalField("sum_ent"))
          /\ sh.max_return = RoundMax
          /\ sh.min_return = RoundMin

\* The leader reads the aggregates of the second iteration of a run whose
\* first iteration logged a larger trajectory count.
C6_Witness ==
    /\ n_parallel >= 2
    /\ 0 < started /\ pc[0] = "derive" /\ itr[0] = start_itr + 1
    /\ Len(dumped) = 1
    /\ sh.num_traj = n_parallel

\* C7: the entropy the leader records is the aggregated sum_ent over the
\* aggregated num_valids when the policy is recurrent, and over the
\* aggregated num_steps when it is not.
C7_EntropyDenominator ==
    \A k \in 1 .. Len(tabular) :
        /\ tabular[k].Entropy[1] = SumRanks(LocalField("sum_ent"))
        /\ recurrent => tabular[k].Entropy[2] = SumRanks(LocalField("num_valids"))
        /\ ~recurrent => tabular[k].Entropy[2] = SumRanks(LocalField("num_steps"))

\* A recurrent policy, two or more workers, valid steps differing from total
\* steps: the recorded entropy differs from the one over num_steps.
C7_Witness ==
    /\ recurrent /\ n_parallel >= 2
    /\ Len(tabular) = 1
    /\ sh.num_valids # sh.num_steps
    /\ tabular[1].Entropy[2] = sh.num_valids
    /\ ~FracEq(tabular[1].Entropy, <<sh.sum_ent, sh.num_steps>>)

\* The number and the sum of all workers' per-trajectory returns.
RoundReturnCount == SumRanks([w \in Ranks |-> Len(loc[w][1].undiscounted_returns)])
RoundReturnSum == SumRanks([w \in Ranks |-> SumSeq(loc[w][1].undiscounted_returns)])

\* Two workers, returns [1.0, 2.0] and [3.0], the leader's row recorded.
TwoWorkerExample ==
    /\ n_parallel = 2
    /\ Len(tabular) = 1
    /\ loc[0][1].undiscounted_returns = <<1, 2>>
    /\ loc[1][1].undiscounted_returns = <<3>>

\* C8: the NumTrajs, AverageReturn, MaxReturn and MinReturn the leader
\* records are the count, mean, maximum and minimum of the per-trajectory
\* undiscounted returns of all workers; with returns [1, 2] at worker 0 and
\* [3] at worker 1 they are 3, 2, 3 and 1 (sum_return 6).
C8_RecordedStatistics ==
    /\ \A k \in 1 .. Len(tabular) :
          /\ tabular[k].NumTrajs = RoundReturnCount
          /\ FracEq(tabular[k].AverageReturn, <<RoundReturnSum, RoundReturnCount>>)
          /\ tabular[k].MaxReturn = RoundMax
          /\ tabular[k].MinReturn = RoundMin
    /\ TwoWorkerExample =>
          /\ tabular[1].NumTrajs = 3
          /\ sh.sum_return = 6
          /\ tabular[1].MaxReturn = 3
          /\ tabular[1].MinReturn = 1
          /\ FracEq(tabular[1].AverageReturn, <<2, 1>>)

\* The two-worker example, recorded.
C8_Witness == TwoWorkerExample /\ tabular[1].NumTrajs = 3

\* Every worker has left the loop of _train without failing.
AllDone == \A w \in Ranks : pc[w] = "done"

\* C9: save_itr_params is called once for each iteration index from
\* start_itr to n_itr - 1, in that order and by rank 0 only; when every worker
\* has finished its loop it has been called max(0, n_itr - start_itr) times.
C9_SaveCalls ==
    /\ \A k \in 1 .. Len(saved) : saved[k] = [itr |-> start_itr + k - 1, by |-> 0]
    /\ Len(saved) <= Max0(n_itr - start_itr)
    /\ AllDone => Len(saved) = Max0(n_itr - start_itr)

\* train() returned after three workers ran two iterations: two saves.
C9_Witness ==
    /\ main = "returned" /\ AllDone
    /\ n_parallel = 3 /\ start_itr = 0 /\ n_itr = 2
    /\ Len(saved) = 2

\* C10: only rank 0 emits log records: every recorded row and every dump is
\* the leader's, each dump writes exactly one row, and the leader has dumped
\* one row for each iteration it has completed.
C10_LeaderOnlyLogs ==
    /\ Len(tabular) <= 1
    /\ \A k \in 1 .. Len(tabular) : tabular[k].by = 0
    /\ \A k \in 1 .. Len(dumped) :
          dumped[k] = [itr |-> start_itr + k - 1, by |-> 0, rows |-> 1]
    /\ (0 < started /\ pc[0] \notin {"set_rank", "failed"}) =>
          Len(dumped) = itr[0] - start_itr

\* Three workers finished two iterations and two rows were dumped.
C10_Witness ==
    /\ n_parallel = 3 /\ AllDone
    /\ Len(dumped) = 2 /\ dumped[2].rows = 1

\* The calls of the loop body of _train, lines 159-168, in program order.
PhaseOrder == <<"obtain_samples", "set_avg_fac", "process_samples",
                "log_diagnostics", "optimize_policy", "baseline_fit">>

IsPrefix(p, q) == Len(p) <= Len(q) /\ \A k \in 1 .. Len(p) : p[k] = q[k]

\* How many calls of the loop body a worker at position p has completed in
\* its current iteration (at the loop header: none yet, or all of the
\* previous iteration).
PhasesDoneAt(p) ==
    CASE p \in {"set_rank"} -> {0}
      [] p \in {"obtain_samples", "done"} -> {0, 6}
      [] p \in {"set_avg_fac", "avgfac0_wait", "avgfac0_blocked", "avgfac_add_read",
                "avgfac_add_write", "avgfac1_wait", "avgfac1_blocked", "avg_fac"} -> {1}
      [] p \in {"process_samples"} -> {2}
      [] p \in {"log_diagnostics", "dgnstc_write", "dgnstc0_wait", "dgnstc0_blocked",
                "lock_acquire", "dgnstc_add_read", "dgnstc_add_write", "lock_release",
                "dgnstc1_wait", "dgnstc1_blocked", "stmt241", "derive"} -> {3}
      [] p \in {"optimize_policy"} -> {4}
      [] p \in {"get_itr_snapshot", "baseline_fit"} -> {5}
      [] p \in {"set_current_itr", "checkpoint"} -> {6}
      [] OTHER -> 0 .. 6

\* One step of worker w's list of completed calls: unchanged, or one call
\* longer, or started afresh by obtain_samples after a complete iteration.
PhaseStep(w) ==
    \/ phases'[w] = phases[w]
    \/ /\ Len(phases'[w]) = Len(phases[w]) + 1
       /\ IsPrefix(phases[w], phases'[w])
    \/ /\ phases'[w] = <<"obtain_samples">>
       /\ phases[w] \in {<<>>, PhaseOrder}

\* C11: every worker runs the calls of an iteration in the one order
\* obtain_samples, set_avg_fac, process_samples, log_diagnostics,
\* optimize_policy, baseline.fit, none skipped, repeated or reordered, and its
\* loop variable advances only after its own baseline.fit of the iteration.
C11_PhaseOrder ==
    /\ [](\A w \in Ranks :
            /\ IsPrefix(phases[w], PhaseOrder)
            /\ Len(phases[w]) \in PhasesDoneAt(pc[w]))
    /\ [][\A w \in Ranks :
            /\ PhaseStep(w)
            /\ itr'[w] # itr[w] => (itr'[w] = itr[w] + 1 /\ phases[w] = PhaseOrder)]_vars

\* The last of three workers has completed the first iteration and is about
\* to sample for the second while the others are still in the first.
C11_Witness ==
    /\ n_parallel = 3 /\ started = 3
    /\ pc[2] = "obtain_samples" /\ itr[2] = start_itr + 1
    /\ phases[2] = PhaseOrder
    /\ itr[0] = start_itr /\ itr[1] = start_itr

\* One step of worker w's optimizer: its rank is given once, by set_rank.
OptimizerRankStep(w) ==
    optimizer'[w].rank # optimizer[w].rank =>
        /\ optimizer[w].rank = -1
        /\ pc[w] = "set_rank"
        /\ optimizer'[w].rank = w

\* C12: when a worker calls optimize_policy its optimizer has been given the
\* worker's rank, once, and has been given the averaging factor computed in
\* this iteration from this iteration's sample, never one of an earlier
\* iteration.
C12_OptimizerContract ==
    /\ [](\A w \in Ranks :
            (Running(w) /\ pc[w] = "optimize_policy") =>
                /\ optimizer[w].rank = w
                /\ optimizer[w].avg_fac_itr = itr[w]
                /\ optimizer[w].avg_fac = avg_fac[w]
                /\ optimizer[w].avg_fac[1] = StepsCollected(batch[w][1])
                /\ IsPrefix(<<"obtain_samples", "set_avg_fac">>, phases[w]))
    /\ [][\A w \in Ranks : OptimizerRankStep(w)]_vars

\* A non-leader of three is about to optimize in its second iteration, with
\* a sample of three steps.
C12_Witness ==
    /\ n_parallel = 3 /\ Running(1)
    /\ pc[1] = "optimize_policy" /\ itr[1] = start_itr + 1
    /\ optimizer[1].avg_fac_itr = itr[1]
    /\ optimizer[1].avg_fac[1] = 3

\* C13: baseline.init_par_objs(n_parallel) has been called, once, before the
\* first worker process is started, and a worker that calls baseline.fit has
\* called baseline.set_rank with its rank before.
C13_BaselinePrepared ==
    /\ Len(baseline_par_objs) <= 1
    /\ started > 0 => baseline_par_objs = <<n_parallel>>
    /\ \A w \in Ranks :
          (Running(w) /\ (pc[w] = "baseline_fit" \/ Len(phases[w]) = 6)) =>
              /\ baseline_rank[w] = w
              /\ baseline_par_objs = <<n_parallel>>

\* The last of three workers is about to call baseline.fit for the first
\* time.
C13_Witness ==
    /\ n_parallel = 3 /\ Running(2)
    /\ pc[2] = "baseline_fit" /\ itr[2] = start_itr
    /\ baseline_rank[2] = 2
    /\ baseline_par_objs = <<3>>

\* set_rank has returned in worker w's process.
SetRankReturned(w) == Running(w) /\ pc[w] \notin {"set_rank", "failed"}

\* C14: the worker of rank r is pinned to exactly one CPU: without a table of
\* assignments the CPU c < cpu_count with c = r mod cpu_count, with a table of
\* length L its entry at index r mod L, also for r >= L and r >= cpu_count;
\* with a two-entry table rank 3 gets entry 1.
C14_OneCpuByRank ==
    /\ \A w \in Ranks :
          SetRankReturned(w) =>
              /\ Len(affinity[w]) = 1
              /\ cpu_assignments = <<>> =>
                    /\ affinity[w][1] \in 0 .. (cpu_count - 1)
                    /\ (w - affinity[w][1]) % cpu_count = 0
              /\ cpu_assignments # <<>> =>
                    \E k \in 1 .. Len(cpu_assignments[1]) :
                        /\ (w - (k - 1)) % Len(cpu_assignments[1]) = 0
                        /\ affinity[w][1] = cpu_assignments[1][k]
    /\ (n_parallel = 4 /\ cpu_assignments # <<>> /\ SetRankReturned(3)
           /\ Len(cpu_assignments[1]) = 2) =>
          affinity[3][1] = cpu_assignments[1][2]

\* Four workers and a two-entry table: rank 3 is pinned to the table's entry
\* 1 and rank 2, equal to the table length, to its entry 0.
C14_Witness ==
    /\ n_parallel = 4 /\ cpu_assignments = <<<<1, 0>>>>
    /\ SetRankReturned(2) /\ SetRankReturned(3)
    /\ affinity[3] = <<0>> /\ affinity[2] = <<1>>

\* C15: once set_rank(r) has returned, the rank of par_data, of the baseline
\* and of the optimizer are r and the random generator was seeded with
\* seed + r; two workers of a run are seeded differently, and the seed of a
\* rank depends on the base seed and the rank only.
C15_RankAndSeed ==
    /\ \A w \in Ranks :
          SetRankReturned(w) =>
              /\ par_rank[w] = w
              /\ baseline_rank[w] = w
              /\ optimizer[w].rank = w
              /\ rng_seed[w] = <<seed + w>>
    /\ \A v, w \in Ranks :
          (v # w /\ SetRankReturned(v) /\ SetRankReturned(w)) => rng_seed[v] # rng_seed[w]

\* Four workers, base seed 2: all have returned from set_rank and rank 3 is
\* seeded with 5.
C15_Witness ==
    /\ n_parallel = 4 /\ seed = 2
    /\ \A w \in Ranks : SetRankReturned(w)
    /\ rng_seed[3] = <<5>> /\ rng_seed[0] = <<2>>

\* The workers whose par_data.rank is 0.
RankZeroHolders == {w \in Ranks : par_rank[w] = 0}

\* One step of worker w's par_data.rank: it is assigned in set_rank, from
\* None, and never again.
ParRankStep(w) ==
    par_rank'[w] # par_rank[w] => (par_rank[w] = -1 /\ pc[w] = "set_rank")

\* C16: a worker's rank is assigned once, by set_rank before its first
\* iteration, and never changes; the ranks assigned are pairwise distinct,
\* one process is started as rank 0 and it alone ever holds rank 0.
C16_RankStable ==
    /\ [](/\ \A w \in Ranks : pc[w] = "set_rank" => par_rank[w] = -1
          /\ \A w \in Ranks : pc[w] # "set_rank" => par_rank[w] \in 0 .. (n_parallel - 1)
          /\ \A v, w \in Ranks :
                (v # w /\ par_rank[v] # -1 /\ par_rank[w] # -1) => par_rank[v] # par_rank[w]
          /\ started > 0 => Cardinality({w \in Ranks : Running(w) /\ RankArg(w) = 0}) = 1
          /\ Cardinality(RankZeroHolders) <= 1
          /\ (\A w \in Ranks : pc[w] # "set_rank") => Cardinality(RankZeroHolders) = 1
          /\ \A w \in Ranks : par_rank[w] # -1 => (IsLeader(w) <=> RankZero(w)))
    /\ [][\A w \in Ranks : ParRankStep(w)]_vars

\* Three workers in their second iteration hold the ranks 0, 1 and 2.
C16_Witness ==
    /\ n_parallel = 3 /\ started = 3
    /\ \A w \in Ranks : itr[w] = start_itr + 1 /\ par_rank[w] = w
    /\ pc[2] = "lock_acquire"

\* No call of a run with this configuration fails: line 241 can execute and
\* every rank's CPU exists.
NoFailure ==
    /\ par_ext
    /\ \A w \in Ranks : ValidCpu(AssignedAffinity(RankArg(w)))

\* The iterations worker w has executed.
IterationsRun(w) == itr[w] - start_itr

\* train() has returned after every worker ran the configured iterations and
\* waited on every barrier once in each of them.
Finished ==
    /\ main = "returned"
    /\ \A w \in Ranks :
          /\ pc[w] = "done"
          /\ IterationsRun(w) = Max0(n_itr - start_itr)
          /\ \A b \in Barriers : waits[b][w] = Max0(n_itr - start_itr)
    /\ \A b \in Barriers : bar[b] = {}

\* C17: when no call fails, under fair scheduling every worker executes
\* max(0, n_itr - start_itr) iterations and terminates, every barrier is
\* waited on by every worker once per iteration and none blocks for ever,
\* and train() returns, and does so only after all workers have terminated;
\* no worker leaves the loop before n_itr.
C17_Terminates ==
    /\ NoFailure ~> Finished
    /\ [](main = "returned" => \A w \in Ranks : Exited(w))
    /\ [](\A w \in Ranks : pc[w] = "done" => IterationsRun(w) = Max0(n_itr - start_itr))

\* train() has returned from a run of three workers and two iterations, each
\* worker having waited twice on each of the four barriers.
C17_Witness ==
    /\ Finished
    /\ n_parallel = 3 /\ n_itr - start_itr = 2
    /\ \A b \in Barriers : waits[b][2] = 2

\* How many times worker w's wait() on barrier b has returned.
Passed(w, b) == waits[b][w] - (IF w \in bar[b] THEN 1 ELSE 0)

\* Worker w has failed without making the wait() on barrier b that worker v
\* is blocked in.
MissingAt(w, v, b) == pc[w] = "failed" /\ v \in bar[b] /\ waits[b][w] < waits[b][v]

\* C18: a wait() on a barrier returns only when all n_parallel workers have
\* made that wait; so when a worker has failed (or is stuck) before a wait,
\* the workers that reach it stay blocked in it for good, no worker completes
\* a further iteration, and train() does not return.
C18_MissingWorkerBlocksAll ==
    /\ [](\A b \in Barriers : \A v, w \in Ranks :
            /\ Passed(v, b) <= waits[b][w]
            /\ IterationsRun(v) <= waits[b][w]
            /\ MissingAt(w, v, b) => main # "returned")
    /\ [][\A b \in Barriers : \A v, w \in Ranks :
            /\ pc[w] = "failed" => (pc'[w] = "failed" /\ waits'[b][w] = waits[b][w])
            /\ MissingAt(w, v, b) => (v \in bar'[b] /\ pc'[v] = pc[v] /\ itr' = itr)]_vars

\* Rank 1 of three failed in set_rank; ranks 0 and 2 are blocked in the first
\* barrier of their first iteration and train() is in join().
C18_Witness ==
    /\ n_parallel = 3 /\ main = "join"
    /\ pc[1] = "failed"
    /\ bar["avgfac0"] = {0, 2}
    /\ start_itr < n_itr

\* Worker w's process ended in set_rank with the error of p.cpu_affinity.
AffinityError(w) == pc[w] = "failed" /\ affinity[w] = <<>>

\* train() is in join() and every worker process still alive is blocked in
\* a barrier that can no longer fill.
Hung ==
    /\ main = "join"
    /\ \E v \in Ranks : ~Exited(v)
    /\ \A v \in Ranks : Exited(v) \/ \E b \in Barriers : v \in bar[b]

AffinityErrorStopsWorker ==
    \A w \in Ranks :
        AffinityError(w) =>
            /\ phases[w] = <<>>
            /\ \A b \in Barriers : waits[b][w] = 0
            /\ IterationsRun(w) = 0

\* The two outcomes the code has instead: the other workers block for good
\* in their first barrier, or (no iteration to run) train() returns normally.
AffinityErrorHangs == \E w \in Ranks : AffinityError(w) /\ Hung
AffinityErrorReturns == \E w \in Ranks : AffinityError(w) /\ main = "returned"

\* The shared objects a worker at position p is about to use.
UsesAt(p) ==
    (IF p \in {"set_avg_fac", "avgfac_add_read", "avgfac_add_write", "avg_fac"}
        THEN {"n_steps_collected"} ELSE {})
    \cup (IF p \in {"dgnstc_write", "dgnstc_add_read", "dgnstc_add_write", "derive"}
        THEN DOMAIN BaseShareds ELSE {})
    \cup (IF p \in {"lock_acquire", "dgnstc_add_read", "dgnstc_add_write", "lock_release"}
        THEN {"lock"} ELSE {})
    \cup {b \in Barriers : p \in {WaitPc(b), BlockedPc(b)}}

\* One step of the shared objects: they are allocated by init_par_objs, before
\* any process is started, and a barrier lets its waiters go only when
\* n_parallel workers are in its wait.
ParObjsStep ==
    /\ par_objs' # par_objs => (main = "init_par_objs" /\ started = 0)
    /\ \A b \in Barriers :
          (bar[b] # {} /\ bar'[b] = {}) => Cardinality(bar[b]) + 1 = n_parallel

HoldsSnapshot(w) == Running(w) /\ pc[w] \in {"baseline_fit", "set_current_itr", "checkpoint"}

\* The keys _train itself assigns in the dict (lines 173, 176).
TrainKeys == {"algo", "paths"}

\* C21 as stated: the dict returned by get_itr_snapshot is persisted by
\* save_itr_params with exactly the content it had when it was returned.
C21_PersistedAsCreated ==
    \A k \in 1 .. Len(persisted) : persisted[k].params = persisted[k].created

\* C21, amended: the dict is created by the leader after optimize_policy of
\* the iteration and stays as returned until the leader reaches line 173;
\* what save_itr_params persists holds every entry of the returned dict with
\* the value it had, plus the entry "algo" and, with store_paths, the entry
\* "paths", and no other entry.
C21_SnapshotOnlyExtended ==
    /\ \A w \in Ranks :
          /\ created[w] # <<>> => RankZero(w)
          /\ HoldsSnapshot(w) /\ RankZero(w) =>
                /\ params[w] = created[w]
                /\ created[w] = <<ItrSnapshot(itr[w])>>
                /\ "optimize_policy" \in {phases[w][j] : j \in 1 .. Len(phases[w])}
    /\ \A k \in 1 .. Len(persisted) :
          LET e == persisted[k] IN
          /\ e.created = ItrSnapshot(e.itr)
          /\ DOMAIN e.created \subseteq DOMAIN e.params
          /\ \A key \in DOMAIN e.created : e.params[key] = e.created[key]
          /\ DOMAIN e.params \ DOMAIN e.created \subseteq TrainKeys
          /\ "algo" \in DOMAIN e.params

\* A snapshot persisted with both added entries.
C21_Witness ==
    /\ Len(persisted) > 0
    /\ DOMAIN persisted[1].params = DOMAIN persisted[1].created \cup TrainKeys
    /\ persisted[1].params # persisted[1].created

\* ---------------------------------------------------------------- C22
\* The calls worker w has completed in its current iteration.
PhasesDone(w) == {phases[w][j] : j \in 1 .. Len(phases[w])}

\* Worker w has built the snapshot of the iteration it is in.
SnapshotBuilt(w) == Running(w) /\ RankZero(w) /\ created[w] = <<ItrSnapshot(itr[w])>>

\* C22: in every iteration the leader builds the snapshot (get_itr_snapshot)
\* only after its baseline.fit of that iteration has completed.
C22_CheckpointAfterFit ==
    \A w \in Ranks : SnapshotBuilt(w) => "baseline_fit" \in PhasesDone(w)

\* The part of C22 that the code keeps: the leader attaches and persists
\* (lines 173-177) only after its baseline.fit of the iteration.
PersistsAfterFit ==
    \A w \in Ranks : Running(w) /\ pc[w] = "checkpoint" => "baseline_fit" \in PhasesDone(w)

\* ---------------------------------------------------------------- C23
\* Worker v has sampled for the iteration after the one worker w is in.
SampledAhead(v, w) ==
    /\ Running(v) /\ Running(w)
    /\ itr[v] = itr[w] + 1
    /\ phases[v] = <<"obtain_samples">>
    /\ pc[v] \notin {"obtain_samples", "done", "failed"}

\* Two other workers have sampled for the next iteration while w is at pc p.
TwoAheadOf(w, p) ==
    /\ pc[w] = p
    /\ \E u, v \in Ranks \ {w} : u # v /\ SampledAhead(u, w) /\ SampledAhead(v, w)

\* The positions from which a worker is in the loop of _train.
InLoop(w) == Running(w) /\ pc[w] \notin {"set_rank", "done", "failed"}

\* The positions of a worker from the start of an iteration up to its wait
\* on barriers_avgfac[0].
BeforeAvgfacPcs == {"obtain_samples", "set_avg_fac", "avgfac0_wait", "avgfac0_blocked"}

\* C23: nothing at the end of an iteration holds a worker back.  A worker is
\* ahead of another one only from the end of its own iteration (or of the
\* loop) to its wait on the first barrier of the next iteration, and the
\* worker behind is then past barriers_dgnstc[1] of the iteration, anywhere
\* up to its baseline.fit or checkpoint; with three or more workers two of
\* them sample for iteration i + 1 while the third is in baseline.fit or in
\* the checkpoint of iteration i (the witness).
C23_RaceAtIterationEnd ==
    \A v, w \in Ranks :
        InLoop(w) /\ Running(v) /\ pc[v] # "failed" /\ itr[w] < itr[v] =>
            /\ itr[v] = itr[w] + 1
            /\ pc[w] \in AfterBPcs
            /\ pc[v] \in BeforeAvgfacPcs \cup {"done"}

\* Ranks 1 and 2 of three have sampled for the next iteration while rank 0
\* is still in baseline.fit.
C23_Witness == n_parallel = 3 /\ TwoAheadOf(0, "baseline_fit")

\* The same with rank 0 in its checkpoint, and with a non-leader in baseline.fit.
LeaderInCheckpointBehind == n_parallel = 3 /\ TwoAheadOf(0, "checkpoint")
NonLeaderInFitBehind == n_parallel = 3 /\ TwoAheadOf(2, "baseline_fit")

\* ---------------------------------------------------------------- C24
\* Worker w ended in the derived statistics of its iteration: it made its
\* local reductions for the iteration, is the recording rank and did not
\* complete log_diagnostics.
FailedInDerive(w) ==
    /\ Running(w) /\ pc[w] = "failed" /\ RecordsLog(w)
    /\ phases[w] = <<"obtain_samples", "set_avg_fac", "process_samples">>
    /\ loc[w] # <<>> /\ loc[w][1].itr = itr[w]

\* The rows recorded for iteration i and not yet dumped.
RowsOf(i) == {j \in 1 .. Len(tabular) : tabular[j].Iteration = i}

\* Iteration i left a trace after the derived statistics: a recorded or
\* dumped row, a snapshot, a saved checkpoint.
TraceOf(w, i) ==
    \/ RowsOf(i) # {}
    \/ \E j \in 1 .. Len(dumped) : dumped[j].itr = i
    \/ \E j \in 1 .. Len(saved) : saved[j].itr = i
    \/ \E j \in 1 .. Len(persisted) : persisted[j].itr = i
    \/ created[w] = <<ItrSnapshot(i)>>
    \/ current_itr[w] > i

\* C24: a zero num_traj or a zero entropy denominator makes the division of
\* the derived statistics fail, and nothing catches it.  The leader goes past
\* the derived statistics only with nonzero divisors and with the row of the
\* iteration recorded; every recorded row has nonzero divisors; a leader that
\* failed there had a zero divisor, and its iteration has no row, no
\* optimize_policy, no baseline.fit, no snapshot and no checkpoint.
C24_ZeroDivisionIsFatal ==
    /\ \A j \in 1 .. Len(tabular) :
          tabular[j].NumTrajs # 0 /\ tabular[j].Entropy[2] # 0
    /\ \A w \in Ranks :
          /\ Running(w) /\ RecordsLog(w) /\ pc[w] \in AfterBPcs \ {"stmt241", "derive"} =>
                ~DivisionFails(sh) /\ RowsOf(itr[w]) # {}
          /\ FailedInDerive(w) =>
                /\ DivisionFails(sh)
                /\ ~TraceOf(w, itr[w])

\* Two workers with a recurrent policy whose valids are all zero: the leader
\* failed in the derived statistics of its second iteration, after a first
\* one that was checkpointed.
C24_Witness ==
    /\ n_parallel = 2 /\ recurrent
    /\ FailedInDerive(0) /\ sh.num_valids = 0 /\ sh.num_traj > 0
    /\ Len(persisted) = 1

\* The aggregated num_traj and num_steps are never zero at the derived
\* statistics: np.min of an empty list (line 200) and the averaging factor
\* (line 292) fail first.
DeriveHasTrajsAndSteps ==
    \A w \in Ranks : Running(w) /\ pc[w] = "derive" => sh.num_traj > 0 /\ sh.num_steps > 0

\* ---------------------------------------------------------------- C25
\* Rank 0 has persisted the snapshot of its last iteration and has not
\* sampled since: batch[0] is still what it sampled in that iteration.
JustPersisted ==
    /\ Len(persisted) > 0
    /\ Running(0)
    /\ itr[0] = persisted[Len(persisted)].itr + 1
    /\ pc[0] \in {"obtain_samples", "done"}

\* C25: a persisted snapshot has the entry "paths" exactly when store_paths
\* is set; the paths are those rank 0 sampled itself in that iteration, and
\* every snapshot is persisted by rank 0.
C25_OnlyLeaderPaths ==
    /\ \A k \in 1 .. Len(persisted) :
          /\ "paths" \in DOMAIN persisted[k].params <=> store_paths
          /\ k <= Len(saved) /\ saved[k].by = 0 /\ saved[k].itr = persisted[k].itr
    /\ JustPersisted /\ store_paths =>
          persisted[Len(persisted)].params.paths = batch[0][1].paths

\* With store_paths, rank 0 persisted its own paths while rank 1 had sampled
\* other paths in the same iteration.
C25_Witness ==
    /\ store_paths /\ n_parallel = 2 /\ JustPersisted
    /\ persisted[Len(persisted)].params.paths = batch[0][1].paths
    /\ itr[1] = itr[0] - 1
    /\ batch[1][1].paths # batch[0][1].paths

\* Without store_paths, a snapshot was persisted with no paths.
PersistedWithoutPaths ==
    ~store_paths /\ Len(persisted) > 0 /\ "paths" \notin DOMAIN persisted[1].params

\* ---------------------------------------------------------------- C26
\* Worker w is at line 241: it has passed barriers_dgnstc[1] of its iteration
\* and line 241 is its next statement.
AtLine241(w) == Running(w) /\ pc[w] = "stmt241"

\* Worker w was stopped by line 241: it passed barriers_dgnstc[1] in its
\* iteration and ended with an error before completing log_diagnostics.
StoppedByLine241(w) ==
    /\ Running(w) /\ pc[w] = "failed"
    /\ Passed(w, "dgnstc1") = itr[w] - start_itr + 1

\* C26: the statement of line 241 is on an unreachable path: no worker is
\* ever about to execute it, and none is stopped by it between barrier B and
\* the derived statistics.
C26_Line241Unreachable ==
    \A w \in Ranks : ~AtLine241(w) /\ ~StoppedByLine241(w)

\* The leader ended at line 241 in its first iteration with nothing recorded.
LeaderStoppedByLine241 ==
    StoppedByLine241(0) /\ ~par_ext /\ tabular = <<>> /\ dumped = <<>>

\* Every worker that passes barriers_dgnstc[1] comes to line 241.
Line241AfterBarrierB ==
    [][\A w \in Ranks : Passed(w, "dgnstc1")' > Passed(w, "dgnstc1") => AtLine241(w)']_vars

\* ---------------------------------------------------------------- C27
\* Worker w is about to read the shared total for its averaging factor
\* (line 292).
ReadsTotal(w) == Running(w) /\ pc[w] = "avg_fac"

\* The positions of the leader from barriers_avgfac[1] of an iteration up to
\* barriers_dgnstc[0] of the same iteration.
LeaderBeforeDgnstcPcs ==
    {"avg_fac", "process_samples", "log_diagnostics", "dgnstc_write",
     "dgnstc0_wait", "dgnstc0_blocked"}

\* C27: when a worker reads the shared total after barrier B of set_avg_fac
\* in iteration i, the leader is in iteration i as well, past its overwrite
\* of that iteration and not past barriers_dgnstc[0]; nobody has passed
\* barriers_dgnstc[1] of iteration i, and the total lies between the
\* leader's step count and the sum of the step counts of iteration i.
C27_ReadBeforeNextOverwrite ==
    \A w \in Ranks : ReadsTotal(w) =>
        /\ Running(0) /\ itr[0] = itr[w]
        /\ pc[0] \in LeaderBeforeDgnstcPcs
        /\ \A v \in Ranks :
              /\ Running(v) /\ itr[v] = itr[w]
              /\ Passed(v, "avgfac1") = itr[w] - start_itr + 1
              /\ Passed(v, "dgnstc1") = itr[w] - start_itr
        /\ n_steps[0] <= sh.n_steps_collected
        /\ sh.n_steps_collected <= SumRanks(n_steps)

\* In the second iteration of three workers, rank 2 has not yet read the
\* total while the leader already waits in barriers_dgnstc[0].
C27_Witness ==
    /\ n_parallel = 3 /\ ReadsTotal(2)
    /\ itr[2] = start_itr + 1
    /\ pc[0] = "dgnstc0_blocked"

\* ---------------------------------------------------------------- C28
\* Worker w has passed barrier b in the iteration it is in.
PastInRound(w, b) == InLoop(w) /\ Passed(w, b) = itr[w] - start_itr + 1

\* C28: no worker passes barriers_avgfac[0] of iteration i + 1 before every
\* worker has passed barriers_dgnstc[1] of iteration i; the loop variables
\* of two workers differ by at most 1; two workers that have both passed the
\* same barrier in their current iteration are in the same iteration.
C28_AtMostOneAhead ==
    \A v, w \in Ranks :
        /\ Passed(v, "avgfac0") <= Passed(w, "dgnstc1") + 1
        /\ itr[v] - itr[w] <= 1
        /\ \A b \in Barriers :
              PastInRound(v, b) /\ PastInRound(w, b) => itr[v] = itr[w]

\* Of three workers, rank 1 already waits in barriers_avgfac[0] of the next
\* iteration while rank 0 is in its checkpoint and rank 2 in baseline.fit.
C28_Witness ==
    /\ n_parallel = 3
    /\ pc[1] = "avgfac0_blocked" /\ itr[1] = itr[0] + 1
    /\ pc[0] = "checkpoint"
    /\ pc[2] = "baseline_fit" /\ itr[2] = itr[0]

\* ---------------------------------------------------------------- C29
\* The positions inside the with block of line 222.
LockedPcs == {"dgnstc_add_read", "dgnstc_add_write", "lock_release"}

HoldsLock(w) == Running(w) /\ pc[w] \in LockedPcs

\* C29: at most one worker is inside the with block, and it is the one the
\* lock records; the leader never takes the lock nor comes to its acquire;
\* no worker waiting in a barrier holds it; the holder has passed
\* barriers_dgnstc[0] once more than barriers_dgnstc[1]; the lock is free
\* whenever the leader is past barriers_dgnstc[1]; and a worker that waits
\* for the lock waits for a holder that can go on.
C29_LockDiscipline ==
    /\ \A v, w \in Ranks : HoldsLock(v) /\ HoldsLock(w) => v = w
    /\ \A w \in Ranks :
          /\ HoldsLock(w) <=> lock = w
          /\ IsLeader(w) => ~HoldsLock(w) /\ pc[w] # "lock_acquire"
          /\ lock = w => /\ \A b \in Barriers : w \notin bar[b]
                         /\ pc[w] \notin {WaitPc(b) : b \in Barriers}
                         /\ Passed(w, "dgnstc0") = Passed(w, "dgnstc1") + 1
          /\ pc[w] = "lock_acquire" /\ ~LockFree =>
                ENABLED (DgnstcAddRead(lock) \/ DgnstcAddWrite(lock) \/ LockRelease(lock))
    /\ lock \in Ranks \cup {-1}
    /\ RoundDone => LockFree

\* Of three workers, rank 1 holds the lock, rank 2 waits for it and the
\* leader waits in barriers_dgnstc[1].
C29_Witness ==
    /\ n_parallel = 3
    /\ lock = 1 /\ pc[1] = "dgnstc_add_write"
    /\ pc[2] = "lock_acquire"
    /\ 0 \in bar["dgnstc1"]

\* ---------------------------------------------------------------- C30
\* The step of line 171 in worker w.
AdvancesCurrentItr(w) == pc[w] = "set_current_itr" /\ pc'[w] # "set_current_itr"

\* C30: self.current_itr of every worker starts at start_itr, is the loop
\* variable of the worker except between line 171 and the end of the
\* leader's checkpoint, where it is one more; it changes only at line 171,
\* by exactly 1; and the algorithm object persisted with the snapshot of
\* iteration itr has current_itr = itr + 1, the snapshots being those of
\* start_itr, start_itr + 1, ... in this order, none twice.
C30_CurrentItrAdvances ==
    /\ [](\A w \in Ranks :
            /\ current_itr[w] >= start_itr
            /\ ~Running(w) \/ pc[w] = "set_rank" => current_itr[w] = start_itr
            /\ Running(w) /\ pc[w] # "set_rank" =>
                  current_itr[w] = itr[w] + (IF pc[w] = "checkpoint" THEN 1 ELSE 0))
    /\ [](\A k \in 1 .. Len(persisted) :
            /\ persisted[k].itr = start_itr + k - 1
            /\ persisted[k].params.algo.current_itr = persisted[k].itr + 1)
    /\ [][\A w \in Ranks :
            /\ current_itr'[w] # current_itr[w] =>
                  AdvancesCurrentItr(w) /\ current_itr'[w] = current_itr[w] + 1
            /\ AdvancesCurrentItr(w) => current_itr'[w] = current_itr[w] + 1
            /\ Len(persisted') > Len(persisted) =>
                  persisted'[Len(persisted')].params.algo.current_itr = current_itr[0]]_vars

\* A run resumed at iteration 1 persisted the snapshot of iteration 1 with
\* an algorithm object that resumes at iteration 2.
C30_Witness ==
    /\ start_itr = 1 /\ AllDone
    /\ Len(persisted) = 1 /\ persisted[1].itr = 1
    /\ persisted[1].params.algo.current_itr = 2
    /\ \A w \in Ranks : current_itr[w] = 2

====
